---- MODULE Spec2Model ----
(***************************************************************************)
(* Model of src/ebs_cleanup_lambda.py: the stale EBS snapshot cleanup      *)
(* Lambda.  Module import parses the environment, the handler resolves its *)
(* configuration from the environment and the event, then makes one pass   *)
(* over the paginated listing of owned snapshots, evaluating and (unless   *)
(* dry-run) deleting each.                                                 *)
(*                                                                         *)
(* Python strings whose case matters are sequences of ASCII codes; opaque  *)
(* values (ids, exception names) are TLA+ strings.  Time is counted in     *)
(* whole days.                                                             *)
(***************************************************************************)
EXTENDS Integers, Sequences, FiniteSets, Bags, TLC

\* ------------------------------------------------------------------ bounds
\* the listing yields at most this many snapshots in one run
MaxSnaps == 2

\* -------------------------------------------------------- program constants
RETENTION_DEFAULT == 30

\* ------------------------------------------------------------------ strings
\* a str is the sequence of its ASCII codes

\* str.lower(), one character: "A".."Z" (65..90) move to "a".."z"
LowerChar(c) == IF c >= 65 /\ c <= 90 THEN c + 32 ELSE c

\* str.lower()
Lower(s) == [i \in 1..Len(s) |-> LowerChar(s[i])]

\* "0".."9" are 48..57
IsDigit(c) == c >= 48 /\ c <= 57
DigitVal(c) == c - 48

\* int(str) succeeds on a non-empty run of decimal digits (the input sets
\* below hold no sign, blank or underscore)
IntParses(s) == Len(s) > 0 /\ \A i \in 1..Len(s) : IsDigit(s[i])

RECURSIVE IntOfDigits(_)
IntOfDigits(s) ==
    IF Len(s) = 0 THEN 0
    ELSE 10 * IntOfDigits(SubSeq(s, 1, Len(s) - 1)) + DigitVal(s[Len(s)])

S_true == <<116, 114, 117, 101>>   \* "true"
S_True == <<84, 114, 117, 101>>   \* "True"
S_TRUE == <<84, 82, 85, 69>>   \* "TRUE"
S_false == <<102, 97, 108, 115, 101>>   \* "false"
S_no == <<110, 111>>   \* "no"
S_yes == <<121, 101, 115>>   \* "yes"
S_y == <<121>>   \* "y"
S_1 == <<49>>   \* "1"
S_x == <<120>>   \* "x"
S_empty == <<>>   \* ""
S_Keep == <<75, 101, 101, 112>>   \* "Keep"
S_keep == <<107, 101, 101, 112>>   \* "keep"
S_Name == <<78, 97, 109, 101>>   \* "Name"
S_completed == <<99, 111, 109, 112, 108, 101, 116, 101, 100>>   \* "completed"
S_Completed == <<67, 111, 109, 112, 108, 101, 116, 101, 100>>   \* "Completed"
S_Pending == <<80, 101, 110, 100, 105, 110, 103>>   \* "Pending"

\* ------------------------------------------------------------ Python values
\* a dict entry or an os.environ entry that may be missing
Missing == [has |-> FALSE, v |-> S_empty]
Str(s)  == [has |-> TRUE, v |-> s]

\* a Python object carried by the event
PyInt(n)  == [type |-> "int",  i |-> n, s |-> S_empty, b |-> FALSE]
PyStr(s)  == [type |-> "str",  i |-> 0, s |-> s,       b |-> FALSE]
PyBool(b) == [type |-> "bool", i |-> 0, s |-> S_empty, b |-> b]
PyNone    == [type |-> "none", i |-> 0, s |-> S_empty, b |-> FALSE]

\* bool(x)
Truthy(x) ==
    CASE x.type = "int"  -> x.i # 0
      [] x.type = "str"  -> Len(x.s) > 0
      [] x.type = "bool" -> x.b
      [] OTHER           -> FALSE

\* int(x) raises on None and on a string that is not a number
IntRaises(x) ==
    \/ x.type = "none"
    \/ x.type = "str" /\ ~IntParses(x.s)

IntOf(x) ==
    CASE x.type = "int"  -> x.i
      [] x.type = "str"  -> IntOfDigits(x.s)
      [] x.type = "bool" -> IF x.b THEN 1 ELSE 0
      [] OTHER           -> 0

\* truthiness of os.getenv(name): None and "" are both falsy
EnvTruthy(e) == e.has /\ Len(e.v) > 0

\* os.getenv(name, default)
getenv(e, default) == IF e.has THEN e.v ELSE default

\* ------------------------------------------------------------------- inputs
\* os.environ at import: each variable unset, empty or set
Environ(rd, dr, xv) ==
    [RETENTION_DAYS |-> rd, DRY_RUN |-> dr, EXCLUDE_TAG_KEY |-> Missing,
     EXCLUDE_TAG_VALUE |-> xv]
Environs == { Environ(Missing,      Missing,      Missing),
              Environ(Str(S_1),     Str(S_false), Missing),
              Environ(Missing,      Str(S_empty), Str(S_empty)),
              Environ(Str(S_1),     Str(S_True),  Str(S_empty)),
              Environ(Str(S_empty), Missing,      Missing),
              Environ(Str(S_x),     Str(S_false), Missing) }

\* the event is any object; a dict may carry either override field
NoField == [has |-> FALSE, v |-> PyNone]
NoEvent == [isDict |-> FALSE, retention_days |-> NoField, dry_run |-> NoField]
Field(x) == [has |-> TRUE, v |-> x]
Event(isDict, rd, dr) == [isDict |-> isDict, retention_days |-> rd, dry_run |-> dr]
Events == { Event(FALSE, NoField, NoField),
            Event(TRUE,  NoField, NoField),
            Event(TRUE,  Field(PyInt(2)), Field(PyBool(FALSE))),
            Event(TRUE,  Field(PyStr(S_x)), Field(PyBool(TRUE))) }

\* datetime.now(timezone.utc), in days
NowValues == {100}

NoAccount == "None"
AccountIds == {"123456789012"}

VARIABLES
    environ,            \* os.environ: RETENTION_DAYS, DRY_RUN, EXCLUDE_TAG_VALUE
    RETENTION_DAYS,     \* module globals set at import
    DRY_RUN,
    EXCLUDE_TAG_KEY,
    EXCLUDE_TAG_VALUE,
    _account_id,        \* module global, lazily resolved
    inventory,          \* how many snapshots the account owns
    pc,                 \* position of the program
    event,              \* the handler's argument
    retention_days,     \* handler locals
    dry_run,
    cutoff,
    stats,
    last,               \* the record the loop body processed last, and what happened
    calls               \* history: external calls made and where errors were counted

vars == <<environ, RETENTION_DAYS, DRY_RUN, EXCLUDE_TAG_KEY, EXCLUDE_TAG_VALUE,
          _account_id, inventory, pc, event, retention_days, dry_run, cutoff, stats, last, calls>>


\* --------------------------------------------------------- snapshot records
Tag(k, val) == [Key |-> k, Value |-> val]
TagStr(s)   == [kind |-> "str", v |-> s]
TagNone     == [kind |-> "none", v |-> S_empty]      \* "Value": None
TagMissing  == [kind |-> "missing", v |-> S_empty]   \* no "Value" entry

NoTags == [has |-> FALSE, list |-> <<>>]
Tags(l) == [has |-> TRUE, list |-> l]

TagInputs == { NoTags,
               Tags(<<Tag(S_Keep, TagStr(S_true))>>),
               Tags(<<Tag(S_keep, TagStr(S_true))>>),
               Tags(<<Tag(S_Name, TagStr(S_x)), Tag(S_Keep, TagStr(S_TRUE))>>),
               Tags(<<Tag(S_Keep, TagStr(S_no))>>),
               Tags(<<Tag(S_Keep, TagNone)>>) }


\* StartTime: the entry may be missing, None, or a datetime that is naive or
\* timezone-aware
NoStartTime   == [kind |-> "missing",  t |-> 0, tzinfo |-> "none"]
NoneStartTime == [kind |-> "none",     t |-> 0, tzinfo |-> "none"]
DateTime(t, tz) == [kind |-> "datetime", t |-> t, tzinfo |-> tz]

StartTimeInputs(c) == { NoStartTime, NoneStartTime,
                        DateTime(c - 1, "utc"), DateTime(c, "utc"),
                        DateTime(c + 1, "utc"), DateTime(c - 1, "none") }

\* the records a page may hold: every tag list on the completed records
\* past the cutoff, and the other states and start times on a few
Snapshots(c) ==
    [State : {Str(S_completed)},
     StartTime : {DateTime(c - 1, "utc")},
     Tags : TagInputs]
    \cup [State : {Str(S_completed)},
          StartTime : {NoStartTime, NoneStartTime, DateTime(c, "utc"),
                       DateTime(c + 1, "utc")},
          Tags : {NoTags, Tags(<<Tag(S_Keep, TagStr(S_true))>>)}]
    \cup [State : {Str(S_Completed)},
          StartTime : {DateTime(c - 1, "none")},
          Tags : {NoTags}]
    \cup [State : {Str(S_Pending)},
          StartTime : {NoStartTime, DateTime(c - 1, "utc")},
          Tags : {NoTags, Tags(<<Tag(S_Keep, TagStr(S_true))>>)}]

\* outcomes of the external calls
StsOutcomes    == AccountIds \cup {"fail"}
ImagesOutcomes == {"no_images", "images", "ClientError", "Exception"}
DeleteOutcomes == {"ok", "ClientError", "Exception"}
ImagesFailures == {"ClientError", "Exception"}

\* --------------------------------------------------------------- evaluation
\* the reason string, by its parts
Reason(kind, state, time, key, value) ==
    [kind |-> kind, state |-> state, time |-> time, key |-> key, value |-> value]
R_state(st)      == Reason("state", st, 0, S_empty, S_empty)
R_no_start_time  == Reason("no start time", S_empty, 0, S_empty, S_empty)
R_age(t)         == Reason("age less than retention", S_empty, t, S_empty, S_empty)
R_excluded(k, v) == Reason("excluded by tag", S_empty, 0, k, v)
R_referenced     == Reason("referenced by AMI", S_empty, 0, S_empty, S_empty)
R_eligible       == Reason("eligible", S_empty, 0, S_empty, S_empty)
R_raised         == Reason("raised", S_empty, 0, S_empty, S_empty)

get_account_id(cache, stsOut) ==
    IF cache # NoAccount
    THEN [value |-> cache, cache |-> cache, sts_calls |-> 0]
    ELSE IF stsOut # "fail"
         THEN [value |-> stsOut, cache |-> stsOut, sts_calls |-> 1]
         ELSE [value |-> NoAccount, cache |-> cache, sts_calls |-> 1]

\* value of t.get("Value", "").lower() == EXCLUDE_TAG_VALUE.lower(); raises
\* when the entry is None
TagValueRaises(t) == t.Value.kind = "none"
\* (variant: the values compared as they are, case and all)
TagValueMatches_exact(t) == t.Value.v = EXCLUDE_TAG_VALUE
TagValueMatches(t) == Lower(t.Value.v) = Lower(EXCLUDE_TAG_VALUE)

RECURSIVE exclude_tag_from(_, _)
exclude_tag_from(tags, i) ==
    IF i > Len(tags) THEN [raised |-> FALSE, value |-> FALSE]
    ELSE IF tags[i].Key = EXCLUDE_TAG_KEY
         THEN IF EXCLUDE_TAG_VALUE = S_empty
              THEN [raised |-> FALSE, value |-> TRUE]
              ELSE IF TagValueRaises(tags[i])
                   THEN [raised |-> TRUE, value |-> FALSE]
                   ELSE IF TagValueMatches(tags[i])
                        THEN [raised |-> FALSE, value |-> TRUE]
                        ELSE exclude_tag_from(tags, i + 1)
         ELSE exclude_tag_from(tags, i + 1)

snapshot_has_exclude_tag(snapshot) ==
    exclude_tag_from(IF snapshot.Tags.has THEN snapshot.Tags.list ELSE <<>>, 1)

\* (variant: a failed lookup taken as "no image uses it")
images_result_fail_open(imgOut) == imgOut = "images"

\* what describe_images leads to: True when images come back, and True on
\* either except branch
images_result(imgOut) ==
    CASE imgOut = "images"      -> TRUE
      [] imgOut = "no_images"   -> FALSE
      [] imgOut = "ClientError" -> TRUE
      [] OTHER                  -> TRUE

snapshot_used_by_any_ami(stsOut, imgOut) ==
    LET g1 == get_account_id(_account_id, stsOut)
        g2 == IF g1.value # NoAccount
              THEN get_account_id(g1.cache, stsOut)
              ELSE [value |-> NoAccount, cache |-> g1.cache, sts_calls |-> 0]
    IN  [value        |-> images_result(imgOut),
         cache        |-> g2.cache,
         sts_calls    |-> g1.sts_calls + g2.sts_calls,
         images_calls |-> 1]

\* start_time > cutoff_dt: the record is too young
TooYoung(t, cutoff_dt) == t > cutoff_dt

Verdict(raised, eligible, reason, cache, sts, images) ==
    [raised |-> raised, eligible |-> eligible, reason |-> reason,
     cache |-> cache, sts_calls |-> sts, images_calls |-> images]

should_delete_snapshot(snapshot, cutoff_dt, stsOut, imgOut) ==
    LET state == Lower(getenv(snapshot.State, S_empty))
        start_time == snapshot.StartTime
        tagged == snapshot_has_exclude_tag(snapshot)
        used == snapshot_used_by_any_ami(stsOut, imgOut)
    IN  IF start_time.kind = "missing"
        THEN Verdict(TRUE, FALSE, R_raised, _account_id, 0, 0)
        ELSE IF state # S_completed
        THEN Verdict(FALSE, FALSE, R_state(state), _account_id, 0, 0)
        ELSE IF start_time.kind # "datetime"
        THEN Verdict(FALSE, FALSE, R_no_start_time, _account_id, 0, 0)
        ELSE IF TooYoung(start_time.t, cutoff_dt)
        THEN Verdict(FALSE, FALSE, R_age(start_time.t), _account_id, 0, 0)
        ELSE IF tagged.raised
        THEN Verdict(TRUE, FALSE, R_raised, _account_id, 0, 0)
        ELSE IF tagged.value
        THEN Verdict(FALSE, FALSE, R_excluded(EXCLUDE_TAG_KEY, EXCLUDE_TAG_VALUE),
                     _account_id, 0, 0)
        ELSE IF used.value
        THEN Verdict(FALSE, FALSE, R_referenced, used.cache, used.sts_calls,
                     used.images_calls)
        ELSE Verdict(FALSE, TRUE, R_eligible, used.cache, used.sts_calls,
                     used.images_calls)

\* (variant: only ClientError is caught, anything else propagates)
delete_snapshot_reraises(delOut) ==
    IF delOut = "ok"
    THEN [raised |-> FALSE, ok |-> TRUE,  msg |-> "deleted"]
    ELSE [raised |-> delOut # "ClientError", ok |-> FALSE, msg |-> delOut]

\* delete_snapshot hands every failure back as (False, message)
delete_snapshot(delOut) ==
    IF delOut = "ok"
    THEN [raised |-> FALSE, ok |-> TRUE,  msg |-> "deleted"]
    ELSE [raised |-> FALSE, ok |-> FALSE, msg |-> delOut]

build_cutoff(days, now) == now - days

\* ------------------------------------------------------------ module import
\* get_env_int(name, default): the default when the variable is unset, its
\* integer value when it parses, ValueError otherwise
get_env_int(e, default) ==
    IF ~e.has THEN [raised |-> FALSE, value |-> default]
    ELSE IF IntParses(e.v) THEN [raised |-> FALSE, value |-> IntOfDigits(e.v)]
    ELSE [raised |-> TRUE, value |-> default]

\* os.getenv("DRY_RUN", "true").lower() in ("1", "true", "yes", "y")
parse_dry_run(e) == Lower(getenv(e, S_true)) \in {S_1, S_true, S_yes, S_y}

ZeroStats == [total_scanned |-> 0, eligible |-> 0, deleted |-> 0, skipped |-> 0,
              errors |-> 0, skipped_reasons |-> EmptyBag]

NoSnapshot == [State |-> Missing, StartTime |-> NoStartTime, Tags |-> NoTags]
NoLast == [valid |-> FALSE, snapshot |-> NoSnapshot, raised |-> FALSE,
           eligible |-> FALSE, reason |-> R_raised, lookup |-> "not_called",
           images_calls |-> 0, delete |-> "not_called", delete_calls |-> 0,
           delete_raised |-> FALSE]
NoCalls == [sts |-> 0, owner |-> "unset", lookup_failures |-> 0, deletes |-> 0,
            eval_errors |-> 0, delete_errors |-> 0]

Init ==
    /\ environ \in Environs
    /\ RETENTION_DAYS = RETENTION_DEFAULT
    /\ DRY_RUN = TRUE
    /\ EXCLUDE_TAG_KEY = S_Keep
    /\ EXCLUDE_TAG_VALUE = S_true
    /\ _account_id = NoAccount
    /\ inventory \in 0..MaxSnaps
    /\ pc = "import"
    /\ event = NoEvent
    /\ retention_days = RETENTION_DEFAULT
    /\ dry_run = TRUE
    /\ cutoff = 0
    /\ stats = ZeroStats
    /\ last = NoLast
    /\ calls = NoCalls

\* lines 26-47 run to the end
LoadModule ==
    /\ pc = "import"
    /\ ~get_env_int(environ.RETENTION_DAYS, RETENTION_DEFAULT).raised
    /\ RETENTION_DAYS' = get_env_int(environ.RETENTION_DAYS, RETENTION_DEFAULT).value
    /\ DRY_RUN' = parse_dry_run(environ.DRY_RUN)
    /\ EXCLUDE_TAG_KEY' = getenv(environ.EXCLUDE_TAG_KEY, S_Keep)
    /\ EXCLUDE_TAG_VALUE' = getenv(environ.EXCLUDE_TAG_VALUE, S_true)
    /\ _account_id' = NoAccount
    /\ pc' = "idle"
    /\ UNCHANGED <<environ, inventory, event, retention_days, dry_run, cutoff, stats,
                   last, calls>>

\* get_env_int raises ValueError: the module never loads
LoadModuleFails ==
    /\ pc = "import"
    /\ get_env_int(environ.RETENTION_DAYS, RETENTION_DEFAULT).raised
    /\ pc' = "import_failed"
    /\ UNCHANGED <<environ, RETENTION_DAYS, DRY_RUN, EXCLUDE_TAG_KEY, EXCLUDE_TAG_VALUE,
                   _account_id, inventory, event, retention_days, dry_run, cutoff, stats, last, calls>>

\* ------------------------------------------------------------------ handler
\* the override applies when the event carries the field and
\* os.getenv(name) is falsy; an int() failure leaves the environment's value
effective_retention_days(ev) ==
    IF /\ ev.isDict
       /\ ev.retention_days.has
       /\ ~EnvTruthy(environ.RETENTION_DAYS)
       /\ ~IntRaises(ev.retention_days.v)
    THEN IntOf(ev.retention_days.v)
    ELSE RETENTION_DAYS

effective_dry_run(ev) ==
    IF /\ ev.isDict
       /\ ev.dry_run.has
       /\ ~EnvTruthy(environ.DRY_RUN)
    THEN Truthy(ev.dry_run.v)
    ELSE DRY_RUN

\* the runtime calls handler(event, context)
Invoke(ev) ==
    /\ pc = "idle"
    /\ event' = ev
    /\ pc' = "invoked"
    /\ UNCHANGED <<environ, RETENTION_DAYS, DRY_RUN, EXCLUDE_TAG_KEY, EXCLUDE_TAG_VALUE,
                   _account_id, inventory, retention_days, dry_run, cutoff, stats, last, calls>>

\* the handler up to the loop: configuration, cutoff, fresh statistics; the
\* event is not read again
handler_entry(now) ==
    /\ pc = "invoked"
    /\ event' = NoEvent
    /\ retention_days' = effective_retention_days(event)
    /\ dry_run' = effective_dry_run(event)
    /\ cutoff' = build_cutoff(effective_retention_days(event), now)
    /\ stats' = ZeroStats
    /\ last' = NoLast
    /\ calls' = NoCalls
    /\ pc' = "listing"
    /\ UNCHANGED <<environ, RETENTION_DAYS, DRY_RUN, EXCLUDE_TAG_KEY, EXCLUDE_TAG_VALUE,
                   _account_id, inventory>>

\* list_owned_snapshots up to the first page request: the owner is resolved
list_owned_snapshots(stsOut) ==
    /\ pc = "listing"
    /\ LET g == get_account_id(_account_id, stsOut)
       IN  /\ _account_id' = g.cache
           /\ calls' = [calls EXCEPT !.sts = @ + g.sts_calls,
                                     !.owner = IF g.value # NoAccount THEN g.value ELSE "self"]
    /\ pc' = "loop"
    /\ UNCHANGED <<environ, RETENTION_DAYS, DRY_RUN, EXCLUDE_TAG_KEY, EXCLUDE_TAG_VALUE,
                   inventory, event, retention_days, dry_run, cutoff, stats, last>>

\* (variant: the skip counted without its reason)
record_skip_drops_reason(st, reason) == [st EXCEPT !.skipped = @ + 1]

\* lines 200-202
record_skip(st, reason) ==
    [st EXCEPT !.skipped = @ + 1,
               !.skipped_reasons = @ (+) SetToBag({reason})]

\* lines 216-222: the result of delete_snapshot counted; an exception out of
\* it would land in the except clause of line 224
count_delete(counted, d) ==
    IF d.raised
    THEN [stats |-> [counted EXCEPT !.errors = @ + 1], delete_calls |-> 1,
          delete_errors |-> 0, eval_errors |-> 1, delete_raised |-> TRUE]
    ELSE IF d.ok
    THEN [stats |-> [counted EXCEPT !.deleted = @ + 1], delete_calls |-> 1,
          delete_errors |-> 0, eval_errors |-> 0, delete_raised |-> FALSE]
    ELSE [stats |-> [counted EXCEPT !.errors = @ + 1], delete_calls |-> 1,
          delete_errors |-> 1, eval_errors |-> 0, delete_raised |-> FALSE]

\* (variant: the dry-run flag not consulted)
delete_phase_ignores_dry_run(st, dry, delOut) ==
    count_delete([st EXCEPT !.eligible = @ + 1], delete_snapshot(delOut))

\* lines 206-222: the eligible branch
delete_phase(st, dry, delOut) ==
    IF dry
    THEN [stats |-> [st EXCEPT !.eligible = @ + 1], delete_calls |-> 0,
          delete_errors |-> 0, eval_errors |-> 0, delete_raised |-> FALSE]
    ELSE count_delete([st EXCEPT !.eligible = @ + 1], delete_snapshot(delOut))

\* lines 195-226: one pass of the loop body, v being what
\* should_delete_snapshot came to on the snapshot just yielded
loop_body(st, v, dry, delOut) ==
    LET scanned == [st EXCEPT !.total_scanned = @ + 1]
        del == delete_phase(scanned, dry, delOut)
        none == [stats |-> scanned, delete_calls |-> 0, delete_errors |-> 0,
                 eval_errors |-> 0, delete_raised |-> FALSE]
    IN  IF v.raised
        THEN [none EXCEPT !.stats = [scanned EXCEPT !.errors = @ + 1], !.eval_errors = 1]
        ELSE IF ~v.eligible
        THEN [none EXCEPT !.stats = record_skip(scanned, v.reason)]
        ELSE del

handler_loop(snap, stsOut, imgOut, delOut) ==
    /\ pc = "loop"
    /\ stats.total_scanned < inventory
    /\ \E v \in {should_delete_snapshot(snap, cutoff, stsOut, imgOut)} :
         \E b \in {loop_body(stats, v, dry_run, delOut)} :
           /\ stats' = b.stats
           /\ _account_id' = v.cache
           /\ calls' = [calls EXCEPT !.sts = @ + v.sts_calls,
                                     !.lookup_failures =
                                         IF v.images_calls > 0 /\ imgOut \in ImagesFailures
                                         THEN @ + 1 ELSE @,
                                     !.deletes = @ + b.delete_calls,
                                     !.eval_errors = @ + b.eval_errors,
                                     !.delete_errors = @ + b.delete_errors]
           /\ last' = [valid |-> TRUE, snapshot |-> snap, raised |-> v.raised,
                       eligible |-> v.eligible, reason |-> v.reason,
                       lookup |-> IF v.images_calls > 0 THEN imgOut ELSE "not_called",
                       images_calls |-> v.images_calls,
                       delete |-> IF b.delete_calls > 0 THEN delOut ELSE "not_called",
                       delete_calls |-> b.delete_calls,
                       delete_raised |-> b.delete_raised]
    /\ pc' = "loop"
    /\ UNCHANGED <<environ, RETENTION_DAYS, DRY_RUN, EXCLUDE_TAG_KEY, EXCLUDE_TAG_VALUE,
                   inventory, event, retention_days, dry_run, cutoff>>

\* the outcomes to draw for a record: one per external call it leads to
ReachesLookup(snap) ==
    should_delete_snapshot(snap, cutoff, "fail", "images").images_calls > 0
ReachesDelete(snap, imgOut) ==
    should_delete_snapshot(snap, cutoff, "fail", imgOut).eligible /\ ~dry_run

\* the paginator raises while fetching a page: nothing around the for
\* statement catches it, the handler ends with the exception
list_page_fails ==
    /\ pc = "loop"
    /\ pc' = "raised"
    /\ UNCHANGED <<environ, RETENTION_DAYS, DRY_RUN, EXCLUDE_TAG_KEY, EXCLUDE_TAG_VALUE,
                   _account_id, inventory, event, retention_days, dry_run, cutoff, stats, last, calls>>

\* the listing is exhausted: the summary is logged and stats returned
handler_return ==
    /\ pc = "loop"
    /\ stats.total_scanned = inventory
    /\ pc' = "done"
    /\ UNCHANGED <<environ, RETENTION_DAYS, DRY_RUN, EXCLUDE_TAG_KEY, EXCLUDE_TAG_VALUE,
                   _account_id, inventory, event, retention_days, dry_run, cutoff, stats, last, calls>>

\* the for statement takes the next snapshot off the listing
scan_next ==
    \E snap \in Snapshots(cutoff) :
      \E reach \in {ReachesLookup(snap)} :
        \E stsOut \in IF reach /\ _account_id = NoAccount
                       THEN StsOutcomes ELSE {"fail"} :
          \E imgOut \in IF reach THEN ImagesOutcomes ELSE {"images"} :
            \E delOut \in IF reach /\ ReachesDelete(snap, imgOut)
                           THEN DeleteOutcomes ELSE {"ok"} :
              handler_loop(snap, stsOut, imgOut, delOut)

Next ==
    \/ LoadModule
    \/ LoadModuleFails
    \/ \E ev \in Events : Invoke(ev)
    \/ \E now \in NowValues : handler_entry(now)
    \/ \E stsOut \in StsOutcomes : list_owned_snapshots(stsOut)
    \/ scan_next
    \/ list_page_fails
    \/ handler_return

Spec == Init /\ [][Next]_vars

\* ================================================================== claims
Running == pc \in {"listing", "loop", "done", "raised"}
DeleteFailures == {"ClientError", "Exception"}

\* the loop body has just run over one more snapshot
Scanned == pc = "loop" /\ stats'.total_scanned = stats.total_scanned + 1

\* C1: in a run whose effective dry-run flag is true the delete action is
\* never invoked and `deleted` stays 0, whatever the listing and the lookups
C1_DryRunNeverDeletes ==
    (Running /\ dry_run) =>
        /\ stats.deleted = 0
        /\ calls.deletes = 0
        /\ last.delete_calls = 0

C1_Witness == pc = "done" /\ dry_run /\ stats.eligible > 0 /\ last.eligible

\* C2: a snapshot that passes the state, age and tag checks and whose
\* describe_images call fails (ClientError or any other exception) comes out
\* not eligible with the "referenced" reason, is counted as skipped, is not
\* deleted, and the loop goes on
C2_FailClosed ==
    [][ (Scanned /\ last'.lookup \in ImagesFailures) =>
            /\ ~last'.raised
            /\ ~last'.eligible
            /\ last'.reason = R_referenced
            /\ stats'.skipped = stats.skipped + 1
            /\ CopiesIn(R_referenced, stats'.skipped_reasons)
                 = CopiesIn(R_referenced, stats.skipped_reasons) + 1
            /\ stats'.eligible = stats.eligible
            /\ stats'.deleted = stats.deleted
            /\ stats'.errors = stats.errors
            /\ last'.delete_calls = 0
            /\ pc' = "loop" ]_vars

\* a lookup failed on an earlier snapshot and a later one was deleted
C2_Witness ==
    /\ pc = "done"
    /\ calls.lookup_failures = 1
    /\ stats.skipped = 1
    /\ last.eligible
    /\ stats.deleted = 1

\* C3: a snapshot whose start time is later than or equal to the cutoff is
\* not eligible, whatever its tags and references
C3_NotOlderNotEligible ==
    (last.valid /\ last.snapshot.StartTime.kind = "datetime"
        /\ last.snapshot.StartTime.t >= cutoff) => ~last.eligible

\* the exclusion tag, key and value both compared case-insensitively
HasExcludeTagAnyCase(snapshot) ==
    \E i \in 1..Len(snapshot.Tags.list) :
        /\ Lower(snapshot.Tags.list[i].Key) = Lower(EXCLUDE_TAG_KEY)
        /\ snapshot.Tags.list[i].Value.kind = "str"
        /\ Lower(snapshot.Tags.list[i].Value.v) = Lower(EXCLUDE_TAG_VALUE)

\* the exclusion tag, the key compared exactly and the value case-insensitively
HasExcludeTag(snapshot) ==
    \E i \in 1..Len(snapshot.Tags.list) :
        /\ snapshot.Tags.list[i].Key = EXCLUDE_TAG_KEY
        /\ snapshot.Tags.list[i].Value.kind = "str"
        /\ Lower(snapshot.Tags.list[i].Value.v) = Lower(EXCLUDE_TAG_VALUE)

C5_StateThenStartTime ==
    last.valid =>
        /\ Lower(last.snapshot.State.v) # S_completed =>
              /\ ~last.raised
              /\ ~last.eligible
              /\ last.reason = R_state(Lower(last.snapshot.State.v))
        /\ (/\ Lower(last.snapshot.State.v) = S_completed
            /\ last.snapshot.StartTime.kind \in {"missing", "none"}) =>
              /\ ~last.raised
              /\ ~last.eligible
              /\ last.reason = R_no_start_time

\* C6: with dry-run off, a failed deletion adds one to `errors` and nothing
\* to `deleted`, delete_snapshot gives the failure back as a value, the loop
\* goes on, and the handler returns only with every listed snapshot scanned
C6_DeleteFailureCounted ==
    [][ /\ (Scanned /\ last'.delete \in DeleteFailures) =>
              /\ ~dry_run
              /\ ~last'.delete_raised
              /\ stats'.errors = stats.errors + 1
              /\ stats'.deleted = stats.deleted
              /\ calls'.delete_errors = calls.delete_errors + 1
              /\ pc' = "loop"
        /\ pc' = "done" => stats'.total_scanned = inventory' ]_vars

\* a deletion failed and the snapshot after it was scanned and deleted
C6_Witness ==
    /\ pc = "done"
    /\ ~dry_run
    /\ calls.delete_errors = 1
    /\ stats.errors = 1
    /\ stats.total_scanned = 2
    /\ last.delete = "ok"
    /\ stats.deleted = 1

\* C7: when the environment variable is present and the event carries the
\* field, the run uses the environment's value; the override is used only
\* when the variable is not present
C7_EnvironmentWins ==
    [][ (pc = "invoked" /\ pc' = "listing") =>
            /\ (environ.RETENTION_DAYS.has /\ event.isDict /\ event.retention_days.has)
                  => retention_days' = RETENTION_DAYS
            /\ (environ.DRY_RUN.has /\ event.isDict /\ event.dry_run.has)
                  => dry_run' = DRY_RUN ]_vars

\* C8: once the module has loaded, no failure of an external call ends the
\* handler with an exception
C8_NeverAborts == pc # "raised"

\* C9: in one run the lookup and the delete are each made at most once per
\* snapshot and the account identity is resolved once, also when resolving
\* fails and the run falls back to "self"
C9_EachRequestOnce ==
    /\ last.images_calls <= 1
    /\ last.delete_calls <= 1
    /\ calls.sts <= 1

\* C10: the counters never decrease; after each snapshot total_scanned =
\* skipped + eligible + errors raised while evaluating, deleted <= eligible,
\* skipped is the sum of skipped_reasons, and with dry-run off eligible =
\* deleted + failed deletions
Accounted ==
    /\ stats.total_scanned = stats.skipped + stats.eligible + calls.eval_errors
    /\ stats.deleted <= stats.eligible
    /\ stats.skipped = BagCardinality(stats.skipped_reasons)
    /\ (Running /\ ~dry_run) => stats.eligible = stats.deleted + calls.delete_errors

Monotone ==
    /\ stats'.total_scanned >= stats.total_scanned
    /\ stats'.eligible >= stats.eligible
    /\ stats'.deleted >= stats.deleted
    /\ stats'.skipped >= stats.skipped
    /\ stats'.errors >= stats.errors
    /\ \A r \in BagToSet(stats.skipped_reasons) :
           CopiesIn(r, stats'.skipped_reasons) >= CopiesIn(r, stats.skipped_reasons)

C10_Accounting == [][Accounted /\ Accounted' /\ Monotone]_vars

C10_Witness ==
    /\ pc = "done"
    /\ ~dry_run
    /\ stats.total_scanned = 2
    /\ stats.skipped = 1
    /\ stats.eligible = 1
    /\ calls.delete_errors = 1

====
